---- MODULE Spec2Model ----
(***************************************************************************)
(* Model of the admin tool of nventuro.art (scripts/admin.mjs): the slug   *)
(* derivation, the metadata scanner (getMetadata) and the save pipeline    *)
(* (handleSave) over the three directories the tool reads and writes.      *)
(*                                                                         *)
(* Text is modelled as a sequence of one-character strings, so that the    *)
(* regular expressions, the template strings and the path names of the     *)
(* source are computed character by character.                             *)
(***************************************************************************)
EXTENDS Integers, Sequences, FiniteSets, TLC

(***************************************************************************)
(* Bounds of the model                                                     *)
(***************************************************************************)
MaxTitleLen == 3      \* longest title drawn in SpecSlug
MaxPhotos == 2        \* most photos in one submission
MaxFiles == 2         \* most .yaml files of the store drawn in SpecScan
MaxRequests == 2      \* most save requests of the form page under way in SpecPage

(***************************************************************************)
(* Characters and strings                                                  *)
(***************************************************************************)
\* The characters of the model in ascending UTF-16 code unit order.
CodeOrder == <<"\t", "\n", "\f", "\r", " ", "!", "\"", "#", "$", "%", "&", "'", "(", ")", "*", "+", ",", "-", ".", "/", "0", "1", "2", "3", "4", "5", "6", "7", "8", "9", ":", ";", "<", "=", ">", "?", "@", "A", "B", "C", "D", "E", "F", "G", "H", "I", "J", "K", "L", "M", "N", "O", "P", "Q", "R", "S", "T", "U", "V", "W", "X", "Y", "Z", "[", "\\", "]", "^", "_", "a", "b", "c", "d", "e", "f", "g", "h", "i", "j", "k", "l", "m", "n", "o", "p", "q", "r", "s", "t", "u", "v", "w", "x", "y", "z", "{", "|", "}", "~">>

Code(c) == CHOOSE i \in 1..Len(CodeOrder) : CodeOrder[i] = c

UpperChars == <<"A", "B", "C", "D", "E", "F", "G", "H", "I", "J", "K", "L", "M", "N", "O", "P", "Q", "R", "S", "T", "U", "V", "W", "X", "Y", "Z">>
LowerChars == <<"a", "b", "c", "d", "e", "f", "g", "h", "i", "j", "k", "l", "m", "n", "o", "p", "q", "r", "s", "t", "u", "v", "w", "x", "y", "z">>
DigitChars == <<"0", "1", "2", "3", "4", "5", "6", "7", "8", "9">>

Range(s) == {s[i] : i \in 1..Len(s)}

\* \s of the regular expressions
SpaceChars == {" ", "\t", "\n", "\r", "\f"}
\* \w of the regular expressions
WordChars == Range(UpperChars) \cup Range(LowerChars) \cup Range(DigitChars) \cup {"_"}

\* String.prototype.toLowerCase, one character
LowerChar(c) ==
  IF c \in Range(UpperChars)
    THEN LowerChars[CHOOSE i \in 1..Len(UpperChars) : UpperChars[i] = c]
    ELSE c

toLowerCase(s) == [i \in 1..Len(s) |-> LowerChar(s[i])]

\* s.replace(/[^...]/g, '') : keep the characters that satisfy Keep
RECURSIVE Filter(_, _)
Filter(s, Keep) ==
  IF s = <<>> THEN <<>>
  ELSE IF Head(s) \in Keep THEN <<Head(s)>> \o Filter(Tail(s), Keep)
  ELSE Filter(Tail(s), Keep)

\* s.replace(/X+/g, '-') : every maximal run of characters in class In
\* becomes one hyphen
RECURSIVE ReplaceRuns(_, _, _)
ReplaceRuns(s, In, inRun) ==
  IF s = <<>> THEN <<>>
  ELSE IF Head(s) \in In
    THEN (IF inRun THEN <<>> ELSE <<"-">>) \o ReplaceRuns(Tail(s), In, TRUE)
    ELSE <<Head(s)>> \o ReplaceRuns(Tail(s), In, FALSE)

\* s.replace(/^-|-$/g, '') : one hyphen off the start, one off the end
TrimHyphens(s) ==
  LET a == IF s # <<>> /\ Head(s) = "-" THEN Tail(s) ELSE s
  IN IF a # <<>> /\ a[Len(a)] = "-" THEN SubSeq(a, 1, Len(a) - 1) ELSE a

\* A faulty SlugSourceChars: the class also keeps '.' and '/'
SlugSourceChars_WithPathChars ==
  Range(LowerChars) \cup Range(DigitChars) \cup SpaceChars \cup {"-", ".", "/"}

\* the class [a-z0-9\s-]
SlugSourceChars == Range(LowerChars) \cup Range(DigitChars) \cup SpaceChars \cup {"-"}

\* A faulty slugify: the hyphens are trimmed before the runs are collapsed
slugify_TrimFirst(title) ==
  ReplaceRuns(
    TrimHyphens(
      ReplaceRuns(
        Filter(toLowerCase(title), SlugSourceChars),
        SpaceChars, FALSE)),
    {"-"}, FALSE)

slugify(title) ==
  TrimHyphens(
    ReplaceRuns(
      ReplaceRuns(
        Filter(toLowerCase(title), SlugSourceChars),
        SpaceChars, FALSE),
      {"-"}, FALSE))

\* `${n}` for an integer n
RECURSIVE NatToString(_)
NatToString(n) ==
  IF n < 10 THEN <<DigitChars[n + 1]>>
  ELSE NatToString(n \div 10) \o <<DigitChars[(n % 10) + 1]>>

IntToString(n) == IF n < 0 THEN <<"-">> \o NatToString(0 - n) ELSE NatToString(n)

\* str.endsWith(suffix)
endsWith(s, suffix) ==
  /\ Len(s) >= Len(suffix)
  /\ SubSeq(s, Len(s) - Len(suffix) + 1, Len(s)) = suffix

startsWith(s, prefix) ==
  /\ Len(s) >= Len(prefix)
  /\ SubSeq(s, 1, Len(prefix)) = prefix

\* content.split('\n'): the text between consecutive line feeds
split(s) ==
  LET feeds == {i \in 1..Len(s) : s[i] = "\n"}
      \* the position of the k-th line feed; 0 and Len(s) + 1 bound the text
      feed(k) == IF k = 0 THEN 0
                 ELSE IF k > Cardinality(feeds) THEN Len(s) + 1
                 ELSE CHOOSE i \in feeds : Cardinality({j \in feeds : j < i}) = k - 1
  IN [k \in 1..(Cardinality(feeds) + 1) |-> SubSeq(s, feed(k - 1) + 1, feed(k) - 1)]

\* All strings over an alphabet of at most n characters
RECURSIVE StringsUpTo(_, _)
StringsUpTo(alphabet, n) ==
  IF n = 0 THEN {<<>>}
  ELSE LET shorter == StringsUpTo(alphabet, n - 1)
       IN shorter \cup {Append(s, c) : s \in shorter, c \in alphabet}

(***************************************************************************)
(* Buffer.from(text, 'base64')                                             *)
(***************************************************************************)
Base64Chars == <<"A", "B", "C", "D", "E", "F", "G", "H", "I", "J", "K", "L", "M", "N", "O", "P", "Q", "R", "S", "T", "U", "V", "W", "X", "Y", "Z", "a", "b", "c", "d", "e", "f", "g", "h", "i", "j", "k", "l", "m", "n", "o", "p", "q", "r", "s", "t", "u", "v", "w", "x", "y", "z", "0", "1", "2", "3", "4", "5", "6", "7", "8", "9", "+", "/">>

\* The 6-bit value of a character, or 64 for a character that is not a
\* base64 digit ('-' and '_' are the URL-safe forms of '+' and '/')
unbase64(c) ==
  IF c \in Range(Base64Chars)
    THEN (CHOOSE i \in 1..Len(Base64Chars) : Base64Chars[i] = c) - 1
  ELSE IF c = "-" THEN 62
  ELSE IF c = "_" THEN 63
  ELSE 64

\* The digits before the first '=': other characters are skipped
RECURSIVE Sextets(_)
Sextets(s) ==
  IF s = <<>> \/ Head(s) = "=" THEN <<>>
  ELSE IF unbase64(Head(s)) < 64 THEN <<unbase64(Head(s))>> \o Sextets(Tail(s))
  ELSE Sextets(Tail(s))

RECURSIVE PackBytes(_)
PackBytes(x) ==
  IF Len(x) < 2 THEN <<>>
  ELSE LET b1 == x[1] * 4 + (x[2] \div 16)
           b2 == (x[2] % 16) * 16 + (x[3] \div 4)
           b3 == (x[3] % 4) * 64 + x[4]
       IN IF Len(x) = 2 THEN <<b1>>
          ELSE IF Len(x) = 3 THEN <<b1, b2>>
          ELSE <<b1, b2, b3>> \o PackBytes(SubSeq(x, 5, Len(x)))

base64Decode(s) == PackBytes(Sextets(s))

\* The length of the longest prefix of s made of characters in class In
RECURSIVE RunLength(_, _)
RunLength(s, In) ==
  IF s = <<>> \/ Head(s) \notin In THEN 0 ELSE 1 + RunLength(Tail(s), In)

DataUriPrefix == <<"d", "a", "t", "a", ":", "i", "m", "a", "g", "e", "/">>
DataUriMarker == <<";", "b", "a", "s", "e", "6", "4", ",">>

\* photoData.replace(/^data:image\/\w+;base64,/, '')
stripDataUri(photoData) ==
  IF startsWith(photoData, DataUriPrefix)
    THEN LET rest == SubSeq(photoData, Len(DataUriPrefix) + 1, Len(photoData))
             w == RunLength(rest, WordChars)
             tail == SubSeq(rest, w + 1, Len(rest))
         IN IF w >= 1 /\ startsWith(tail, DataUriMarker)
              THEN SubSeq(tail, Len(DataUriMarker) + 1, Len(tail))
              ELSE photoData
    ELSE photoData

(***************************************************************************)
(* The metadata scanner                                                    *)
(***************************************************************************)
YamlExt == <<".", "y", "a", "m", "l">>
PngExt == <<".", "p", "n", "g">>

\* The ways /\s*"?([^"]+)"?\s*$/ matches the text after the colon:
\* <<a, q1, n, q2>> = leading white space, opening quote, value, closing quote
ValueMatches(rest) ==
  {m \in (0..RunLength(rest, SpaceChars)) \X {0, 1} \X (1..Len(rest)) \X {0, 1} :
     LET a == m[1]
         q1 == m[2]
         n == m[3]
         q2 == m[4]
         used == a + q1 + n + q2
     IN /\ used <= Len(rest)
        /\ q1 = 1 => rest[a + 1] = "\""
        /\ \A i \in (a + q1 + 1)..(a + q1 + n) : rest[i] # "\""
        /\ q2 = 1 => rest[a + q1 + n + 1] = "\""
        /\ \A i \in (used + 1)..Len(rest) : rest[i] \in SpaceChars}

\* The order in which the greedy quantifiers try the matches
Prefers(x, y) ==
  \/ x[1] > y[1]
  \/ x[1] = y[1] /\ x[2] > y[2]
  \/ x[1] = y[1] /\ x[2] = y[2] /\ x[3] > y[3]
  \/ x[1] = y[1] /\ x[2] = y[2] /\ x[3] = y[3] /\ x[4] > y[4]

\* line.match(/^(\w+):\s*"?([^"]+)"?\s*$/)
matchLine(line) ==
  LET k == RunLength(line, WordChars)
      rest == SubSeq(line, k + 2, Len(line))
      ms == ValueMatches(rest)
  IN IF k >= 1 /\ Len(line) > k /\ line[k + 1] = ":" /\ ms # {}
       THEN LET m == CHOOSE x \in ms : \A y \in ms : x = y \/ Prefers(x, y)
            IN [matched |-> TRUE, key |-> SubSeq(line, 1, k),
                value |-> SubSeq(rest, m[1] + m[2] + 1, m[1] + m[2] + m[3])]
       ELSE [matched |-> FALSE, key |-> <<>>, value |-> <<>>]

\* A faulty SetAdd: an array push, which keeps duplicates
SetAdd_Push(set, v) == Append(set, v)

\* Set.prototype.add on an insertion-ordered set
SetAdd(set, v) == IF v \in Range(set) THEN set ELSE Append(set, v)

KeyManufacturer == <<"m", "a", "n", "u", "f", "a", "c", "t", "u", "r", "e", "r">>
KeyGame == <<"g", "a", "m", "e">>
KeyFaction == <<"f", "a", "c", "t", "i", "o", "n">>
KeyScale == <<"s", "c", "a", "l", "e">>

EmptySets == [manufacturers |-> <<>>, games |-> <<>>, factions |-> <<>>, scales |-> <<>>]

\* The body of the loop over the lines of one file
scanLine(sets, line) ==
  LET m == matchLine(line)
  IN IF ~m.matched THEN sets
     ELSE IF m.key = KeyManufacturer
       THEN [sets EXCEPT !.manufacturers = SetAdd(@, m.value)]
     ELSE IF m.key = KeyGame
       THEN [sets EXCEPT !.games = SetAdd(@, m.value)]
     ELSE IF m.key = KeyFaction
       THEN [sets EXCEPT !.factions = SetAdd(@, m.value)]
     ELSE IF m.key = KeyScale
       THEN [sets EXCEPT !.scales = SetAdd(@, m.value)]
     ELSE sets

RECURSIVE scanLines(_, _)
scanLines(sets, lines) ==
  IF lines = <<>> THEN sets
  ELSE scanLines(scanLine(sets, Head(lines)), Tail(lines))

RECURSIVE scanFiles(_, _, _)
scanFiles(sets, files, dir) ==
  IF files = <<>> THEN sets
  ELSE scanFiles(scanLines(sets, split(dir[Head(files)])), Tail(files), dir)

\* a < b for strings, by UTF-16 code units
RECURSIVE StrLess(_, _)
StrLess(a, b) ==
  IF b = <<>> THEN FALSE
  ELSE IF a = <<>> THEN TRUE
  ELSE IF Head(a) = Head(b) THEN StrLess(Tail(a), Tail(b))
  ELSE Code(Head(a)) < Code(Head(b))

RECURSIVE Insert(_, _)
Insert(sorted, v) ==
  IF sorted = <<>> THEN <<v>>
  ELSE IF StrLess(v, Head(sorted)) THEN <<v>> \o sorted
  ELSE <<Head(sorted)>> \o Insert(Tail(sorted), v)

\* Array.prototype.sort() with the default comparison
RECURSIVE sort(_)
sort(a) == IF a = <<>> THEN <<>> ELSE Insert(sort(SubSeq(a, 1, Len(a) - 1)), a[Len(a)])

\* array.filter(f => f.endsWith('.yaml'))
RECURSIVE yamlFiles(_)
yamlFiles(names) ==
  IF names = <<>> THEN <<>>
  ELSE IF endsWith(Head(names), YamlExt) THEN <<Head(names)>> \o yamlFiles(Tail(names))
  ELSE yamlFiles(Tail(names))

\* A faulty stripYaml: the dot of the extension is left in place
stripYaml_LeavesDot(f) == IF endsWith(f, YamlExt) THEN SubSeq(f, 1, Len(f) - Len(YamlExt) + 1) ELSE f

\* f.replace(/\.yaml$/, '')
stripYaml(f) == IF endsWith(f, YamlExt) THEN SubSeq(f, 1, Len(f) - Len(YamlExt)) ELSE f

\* The orders in which readdirSync may list a directory
Listings(dir) ==
  {o \in [1..Cardinality(DOMAIN dir) -> DOMAIN dir] :
     \A i, j \in DOMAIN o : i # j => o[i] # o[j]}

\* getMetadata() on the records directory dir, listed in the order listing
getMetadata(dir, listing) ==
  LET files == yamlFiles(listing)
      sets == scanFiles(EmptySets, files, dir)
  IN [manufacturers |-> sort(sets.manufacturers),
      games |-> sort(sets.games),
      factions |-> sort(sets.factions),
      scales |-> sort(sets.scales),
      slugs |-> [i \in 1..Len(files) |-> stripYaml(files[i])]]

(***************************************************************************)
(* The save pipeline                                                       *)
(***************************************************************************)
\* An optional field of the JSON body: absent, or present with a value
None == <<>>
Some(v) == <<v>>

\* Truthiness of an optional string and of an optional number
Truthy(opt) == opt # None /\ opt[1] # <<>>
TruthyNumber(opt) == opt # None /\ opt[1] # 0

\* writeFileSync(join(dir, name), data)
writeFile(dir, name, data) ==
  [n \in DOMAIN dir \cup {name} |-> IF n = name THEN data ELSE dir[n]]

\* A faulty existsSync: no file is ever found
existsSync_Never(dir, name) == FALSE

\* existsSync(join(dir, name))
existsSync(dir, name) == name \in DOMAIN dir

\* A faulty photoFilename: the suffix counts from the index, not index + 1
photoFilename_FromIndex(slug, i) ==
  slug \o (IF i = 0 THEN <<>> ELSE <<"-">> \o IntToString(i)) \o PngExt

\* The target file name of the photo at index i (from 0)
photoFilename(slug, i) ==
  slug \o (IF i = 0 THEN <<>> ELSE <<"-">> \o IntToString(i + 1)) \o PngExt

yamlFilename(slug) == slug \o YamlExt

\* The records and the photos directory of a path in the response
MiniaturesDir == "src/content/miniatures"
PhotosDir == "src/assets/photos"

\* A faulty firstTaken: the last photo is not checked
firstTaken_SkipsLast(slug, n, photoFiles) ==
  LET taken == {i \in 0..(n - 2) : existsSync(photoFiles, photoFilename(slug, i))}
  IN IF taken = {} THEN 0 - 1 ELSE CHOOSE i \in taken : \A j \in taken : i <= j

\* A faulty firstTaken: only the first photo is checked
firstTaken_OnlyFirst(slug, n, photoFiles) ==
  IF n > 0 /\ existsSync(photoFiles, photoFilename(slug, 0)) THEN 0 ELSE 0 - 1

\* The first loop: the index (from 0) of the first photo whose target file
\* exists, or -1
firstTaken(slug, n, photoFiles) ==
  LET taken == {i \in 0..(n - 1) : existsSync(photoFiles, photoFilename(slug, i))}
  IN IF taken = {} THEN 0 - 1 ELSE CHOOSE i \in taken : \A j \in taken : i <= j

\* The second loop: the photos directory and the write log after the
\* photos from index i (from 0) on have been written
RECURSIVE savePhotos(_, _, _, _, _)
savePhotos(photoFiles, written, slug, photos, i) ==
  IF i >= Len(photos) THEN [files |-> photoFiles, written |-> written]
  ELSE savePhotos(
         writeFile(photoFiles, photoFilename(slug, i), base64Decode(stripDataUri(photos[i + 1]))),
         Append(written, [dir |-> PhotosDir, name |-> photoFilename(slug, i)]),
         slug, photos, i + 1)

RECURSIVE photoLines(_, _, _)
photoLines(slug, n, i) ==
  IF i >= n THEN <<>>
  ELSE (IF i = 0 THEN <<>> ELSE <<"\n">>)
       \o <<" ", " ", "-", " ", "\"", ".", ".", "/", ".", ".", "/", "a", "s", "s", "e", "t", "s", "/", "p", "h", "o", "t", "o", "s", "/">> \o photoFilename(slug, i) \o <<"\"">>
       \o photoLines(slug, n, i + 1)

\* The text of the record
buildYaml(data, slug) ==
  <<"t", "i", "t", "l", "e", ":", " ", "\"">> \o data.title \o <<"\"", "\n", "p", "h", "o", "t", "o", "s", ":", "\n">>
  \o photoLines(slug, Len(data.photos), 0)
  \o <<"\n", "m", "a", "n", "u", "f", "a", "c", "t", "u", "r", "e", "r", ":", " ", "\"">> \o data.manufacturer
  \o <<"\"", "\n", "d", "a", "t", "e", ":", " ">> \o data.date
  \o <<"\n", "s", "c", "a", "l", "e", ":", " ", "\"">> \o data.scale \o <<"\"">>
  \o (IF Truthy(data.game) THEN <<"\n", "g", "a", "m", "e", ":", " ", "\"">> \o data.game[1] \o <<"\"">> ELSE <<>>)
  \o (IF Truthy(data.faction) THEN <<"\n", "f", "a", "c", "t", "i", "o", "n", ":", " ", "\"">> \o data.faction[1] \o <<"\"">> ELSE <<>>)
  \o (IF TruthyNumber(data.order) THEN <<"\n", "o", "r", "d", "e", "r", ":", " ">> \o IntToString(data.order[1]) ELSE <<>>)
  \o <<"\n">>

\* A faulty logoPath: the value is not slugified
logoPath_Raw(kind, value) == kind \o <<"/">> \o value \o PngExt

logoPath(kind, value) == kind \o <<"/">> \o slugify(value) \o PngExt

\* The warnings of one category: one entry when the logo is missing
logoWarning(kind, value, logoFiles) ==
  IF logoPath(kind, value) \in logoFiles THEN <<>>
  ELSE <<<<"M", "i", "s", "s", "i", "n", "g", " ", "l", "o", "g", "o", ":", " ">> \o logoPath(kind, value)>>

missingLogos(data, logoFiles) ==
  logoWarning(<<"m", "a", "n", "u", "f", "a", "c", "t", "u", "r", "e", "r", "s">>, data.manufacturer, logoFiles)
  \o (IF Truthy(data.game) THEN logoWarning(<<"g", "a", "m", "e", "s">>, data.game[1], logoFiles) ELSE <<>>)
  \o (IF Truthy(data.faction) THEN logoWarning(<<"f", "a", "c", "t", "i", "o", "n", "s">>, data.faction[1], logoFiles) ELSE <<>>)

Failure(status, error, recordFiles, photoFiles) ==
  [status |-> status, body |-> [error |-> error],
   records |-> recordFiles, photos |-> photoFiles, written |-> <<>>]

\* A faulty missingFields: the scale is not checked
missingFields_NoScale(data) ==
  \/ data.title = <<>>
  \/ data.manufacturer = <<>>
  \/ data.date = <<>>
  \/ Len(data.photos) = 0

\* !title || !manufacturer || !date || !scale || !photos?.length
missingFields(data) ==
  \/ data.title = <<>>
  \/ data.manufacturer = <<>>
  \/ data.date = <<>>
  \/ data.scale = <<>>
  \/ Len(data.photos) = 0

\* A faulty slugExistsError: the slug is not put into the message
slugExistsError_NoSlug(slug) == <<"A", " ", "m", "i", "n", "i", "a", "t", "u", "r", "e", " ", "w", "i", "t", "h", " ", "t", "h", "i", "s", " ", "s", "l", "u", "g", " ", "a", "l", "r", "e", "a", "d", "y", " ", "e", "x", "i", "s", "t", "s">>

slugExistsError(slug) == <<"A", " ", "m", "i", "n", "i", "a", "t", "u", "r", "e", " ", "w", "i", "t", "h", " ", "s", "l", "u", "g", " ", "\"">> \o slug \o <<"\"", " ", "a", "l", "r", "e", "a", "d", "y", " ", "e", "x", "i", "s", "t", "s">>

photoExistsError(filename) == <<"P", "h", "o", "t", "o", " ", "f", "i", "l", "e", " ", "\"">> \o filename \o <<"\"", " ", "a", "l", "r", "e", "a", "d", "y", " ", "e", "x", "i", "s", "t", "s">>

\* handleSave(body) on the given directories: the response, the directories
\* after the call and the files written, in the order of the writes
handleSave(data, recordFiles, photoFiles, logoFiles) ==
  IF missingFields(data)
    THEN Failure(400, <<"M", "i", "s", "s", "i", "n", "g", " ", "r", "e", "q", "u", "i", "r", "e", "d", " ", "f", "i", "e", "l", "d", "s">>, recordFiles, photoFiles)
  ELSE
  LET slug == slugify(data.title)
      n == Len(data.photos)
      taken == firstTaken(slug, n, photoFiles)
  IN
  IF slug = <<>>
    THEN Failure(400, <<"T", "i", "t", "l", "e", " ", "p", "r", "o", "d", "u", "c", "e", "s", " ", "a", "n", " ", "e", "m", "p", "t", "y", " ", "s", "l", "u", "g">>, recordFiles, photoFiles)
  ELSE IF existsSync(recordFiles, yamlFilename(slug))
    THEN Failure(409, slugExistsError(slug), recordFiles, photoFiles)
  ELSE IF taken >= 0
    THEN Failure(409, photoExistsError(photoFilename(slug, taken)), recordFiles, photoFiles)
  ELSE
  LET saved == savePhotos(photoFiles, <<>>, slug, data.photos, 0)
      yamlFile == [dir |-> MiniaturesDir, name |-> yamlFilename(slug)]
  IN [status |-> 200,
      body |-> [message |-> <<"S", "a", "v", "e", "d", " ", "\"">> \o data.title \o <<"\"", " ", "(">> \o IntToString(n)
                            \o <<" ", "p", "h", "o", "t", "o">> \o (IF n > 1 THEN <<"s">> ELSE <<>>) \o <<")">>,
                slug |-> slug,
                files |-> <<yamlFile>> \o saved.written,
                warnings |-> missingLogos(data, logoFiles)],
      records |-> writeFile(recordFiles, yamlFilename(slug), buildYaml(data, slug)),
      photos |-> saved.files,
      written |-> Append(saved.written, yamlFile)]

(***************************************************************************)
(* The state of the tool and of its directories                            *)
(***************************************************************************)
VARIABLES
  records,    \* src/content/miniatures: file name -> text
  photos,     \* src/assets/photos: file name -> bytes
  logos,      \* src/assets/logos: the relative paths that exist
  op,         \* the last request served: "start", "save" or "scan"
  req,        \* the body of the last request
  resp,       \* the response to the last request
  written,    \* the files written while serving the last request, in order
  before,     \* the directories and saved slugs before the last request
  succeeded,  \* the slugs returned by the successful saves so far
  input,      \* SpecSlug: the title drawn
  derived,    \* SpecSlug: slugify(input), slugify(slugify(input))
  conn,       \* SpecHttp: the save requests in progress, by connection
  page        \* SpecPage: the form page in the browser

vars == <<records, photos, logos, op, req, resp, written, before, succeeded, input, derived, conn,
          page>>

EmptyDir == [n \in {} |-> <<>>]

NoData == [title |-> <<>>, manufacturer |-> <<>>, date |-> <<>>, scale |-> <<>>,
           game |-> None, faction |-> None, order |-> None, photos |-> <<>>]

NoResponse == [status |-> 0, body |-> [error |-> <<>>]]

\* The connections of SpecHttp, and a connection on which no request has
\* arrived: the chunks not yet received, the body received so far, the
\* response, and whether a chunk has arrived between two chunks of the other
\* connection
Connections == {1, 2}
NoRequest == [state |-> "none", unsent |-> <<>>, body |-> <<>>, res |-> NoResponse,
              mixed |-> FALSE]
NoConnections == [id \in Connections |-> NoRequest]

\* Inputs of the model
PhotoRaw == <<"Q", "Q", "=", "=">>
PhotoDataUri == <<"d", "a", "t", "a", ":", "i", "m", "a", "g", "e", "/", "p", "n", "g", ";", "b", "a", "s", "e", "6", "4", ",", "Q", "g", "=", "=">>
Payloads == {PhotoRaw, PhotoDataUri}
SomeDate == <<"2", "0", "2", "4", "-", "0", "1", "-", "0", "1">>

\* The dropdowns of the form page, and the page as the HTML gives it: empty
\* fields, the date of today, no option, no photo, no metadata, the Save
\* button disabled, no save request under way
DropdownIds == {<<"m", "a", "n", "u", "f", "a", "c", "t", "u", "r", "e", "r">>, <<"s", "c", "a", "l", "e">>, <<"g", "a", "m", "e">>, <<"f", "a", "c", "t", "i", "o", "n">>}

PageAtLoad ==
  [title |-> <<>>, date |-> SomeDate, order |-> <<>>,
   select |-> [id \in DropdownIds |-> <<>>],
   newValue |-> [id \in DropdownIds |-> <<>>],
   options |-> [id \in DropdownIds |-> {}],
   photos |-> 0,
   metadata |-> None,
   disabled |-> TRUE,
   calls |-> <<>>]

\* The photo lists drawn: n photos, raw base64 and data URI in turn
PhotoList(n) == [i \in 1..n |-> IF i % 2 = 1 THEN PhotoRaw ELSE PhotoDataUri]

\* Spec: titles with the slugs "", "q" and "q-2", zero to MaxPhotos photos,
\* and at most one of manufacturer, date and scale empty
Submissions ==
  {data \in [title : {<<>>, <<"!">>, <<"Q">>, <<"Q", " ", "2">>, <<"q", "-", "2">>},
             manufacturer : {<<>>, <<"F">>},
             date : {<<>>, SomeDate},
             scale : {<<>>, <<"2", "8", "m", "m">>},
             game : {None}, faction : {None}, order : {None},
             photos : {PhotoList(n) : n \in 0..MaxPhotos}] :
     Cardinality({i \in 1..3 : <<data.manufacturer, data.date, data.scale>>[i] = <<>>}) <= 1}

\* SpecMeta: one title, the categorical values varied
MetaSubmissions ==
  [title : {<<"Q">>},
   manufacturer : {<<"F">>, <<"F", "\"">>},
   date : {SomeDate},
   scale : {<<"1", ":", "3", "5">>},
   game : {None, Some(<<>>), Some(<<"G">>)},
   faction : {None, Some(<<"F">>)},
   order : {None, Some(0), Some(1)},
   photos : {PhotoList(1)}]

LogoCandidates == {<<"m", "a", "n", "u", "f", "a", "c", "t", "u", "r", "e", "r", "s", "/", "f", ".", "p", "n", "g">>, <<"g", "a", "m", "e", "s", "/", "g", ".", "p", "n", "g">>}

TitleAlphabet == {"A", "2", " ", "\n", "-", "/", "."}

\* No request has been served yet
InitTool ==
  /\ op = "start"
  /\ req = NoData
  /\ resp = NoResponse
  /\ written = <<>>
  /\ succeeded = {}
  /\ derived = <<>>
  /\ conn = NoConnections
  /\ page = PageAtLoad

\* The tool starts on an empty store; the logos are put there by hand
InitWith(logoFiles) ==
  /\ InitTool
  /\ records = EmptyDir
  /\ photos = EmptyDir
  /\ logos \in SUBSET logoFiles
  /\ before = [records |-> EmptyDir, photos |-> EmptyDir, succeeded |-> {}]
  /\ input = <<>>

Init == InitWith({<<"m", "a", "n", "u", "f", "a", "c", "t", "u", "r", "e", "r", "s", "/", "f", ".", "p", "n", "g">>})

InitMeta == InitWith(LogoCandidates)

\* POST /api/save with body data
Save(data) ==
  LET r == handleSave(data, records, photos, logos)
  IN /\ op' = "save"
     /\ req' = data
     /\ resp' = [status |-> r.status, body |-> r.body]
     /\ records' = r.records
     /\ photos' = r.photos
     /\ written' = r.written
     /\ before' = [records |-> records, photos |-> photos, succeeded |-> succeeded]
     /\ succeeded' = IF r.status = 200 THEN succeeded \cup {r.body.slug} ELSE succeeded
     /\ UNCHANGED <<logos, input, derived, conn, page>>

SaveSubmission == \E data \in Submissions : Save(data)

SaveMeta == \E data \in MetaSubmissions : Save(data)

\* GET /api/metadata
Scan ==
  \E listing \in Listings(records) :
    /\ op' = "scan"
    /\ req' = NoData
    /\ resp' = [status |-> 200, body |-> getMetadata(records, listing)]
    /\ written' = <<>>
    /\ before' = [records |-> records, photos |-> photos, succeeded |-> succeeded]
    /\ UNCHANGED <<records, photos, logos, succeeded, input, derived, conn, page>>

Next == SaveSubmission \/ Scan

Spec == Init /\ [][Next]_vars

NextMeta == SaveMeta \/ Scan

SpecMeta == InitMeta /\ [][NextMeta]_vars

(***************************************************************************)
(* SpecSlug: slugify on every title over TitleAlphabet of at most          *)
(* MaxTitleLen characters, and one save of a submission with that title    *)
(***************************************************************************)
InitSlug ==
  /\ InitTool
  /\ records = EmptyDir
  /\ photos = EmptyDir
  /\ logos = {}
  /\ before = [records |-> EmptyDir, photos |-> EmptyDir, succeeded |-> {}]
  /\ input \in StringsUpTo(TitleAlphabet, MaxTitleLen)

\* slugify applied to the title, then to its own result
Derive ==
  /\ Len(derived) < 2
  /\ derived' = Append(derived, slugify(IF derived = <<>> THEN input ELSE derived[Len(derived)]))
  /\ UNCHANGED <<records, photos, logos, op, req, resp, written, before, succeeded, input, conn, page>>

SaveInput ==
  \E n \in 1..MaxPhotos :
    op = "start" /\ Save([title |-> input, manufacturer |-> <<"F">>, date |-> SomeDate, scale |-> <<"2", "8", "m", "m">>,
          game |-> None, faction |-> None, order |-> None, photos |-> PhotoList(n)])

NextSlug == Derive \/ SaveInput

SpecSlug == InitSlug /\ [][NextSlug]_vars

(***************************************************************************)
(* SpecScan: getMetadata on stores whose files were written by hand        *)
(***************************************************************************)
\* The texts of the files drawn
FileTexts ==
  { <<>>,
    <<"m", "a", "n", "u", "f", "a", "c", "t", "u", "r", "e", "r", ":", " ", "\"", "B", "\"", "\n", "s", "c", "a", "l", "e", ":", " ", "\"", "2", "8", "m", "m", "\"", "\n">>,
    <<"m", "a", "n", "u", "f", "a", "c", "t", "u", "r", "e", "r", ":", " ", "A", "\n", "g", "a", "m", "e", ":", " ", "\"", "G", "\"", "\n", "m", "a", "n", "u", "f", "a", "c", "t", "u", "r", "e", "r", ":", " ", "\"", "B", "\"", "\n", "f", "a", "c", "t", "i", "o", "n", ":", " ", "\"", "B", "\"", " ", "\n", "g", "a", "m", "e", ":", " ", "G", " ">>,
    <<"m", "a", "n", "u", "f", "a", "c", "t", "u", "r", "e", "r", ":", " ", "\"", "a", "\"", "\n", "s", "c", "a", "l", "e", ":", "1", ":", "3", "5", "\n", " ", " ", "g", "a", "m", "e", ":", " ", "\"", "i", "n", "d", "e", "n", "t", "e", "d", "\"", "\n", "f", "a", "c", "t", "i", "o", "n", ":", " ", "\"", "q", "\"", "x", "\"", "\n">>,
    <<"t", "i", "t", "l", "e", ":", " ", "\"", "t", "\"", "\n", "p", "h", "o", "t", "o", "s", ":", "\n", " ", " ", "-", " ", "\"", "x", ".", "p", "n", "g", "\"", "\n", "g", "a", "m", "e", ":", " ", "\"", "B", "\"", "\n", "f", "a", "c", "t", "i", "o", "n", ":", " ", "\"", "A", "\"", "\n", "s", "c", "a", "l", "e", ":", " ", "\"", "2", "8", "m", "m", "\"", "\n">> }

\* The names of the record files drawn: r1.yaml .. rN.yaml
ScanNames == {<<"r">> \o IntToString(i) \o YamlExt : i \in 1..MaxFiles}

\* A file of the directory that is not a record
NotesName == <<"n", "o", "t", "e", "s", ".", "t", "x", "t">>
NotesText == <<"m", "a", "n", "u", "f", "a", "c", "t", "u", "r", "e", "r", ":", " ", "\"", "Z", "\"", "\n", "s", "c", "a", "l", "e", ":", " ", "\"", "5", "4", "m", "m", "\"", "\n">>

\* The stores drawn: any of the record files, with or without the notes
Stores ==
  LET recordStores == UNION {[names -> FileTexts] : names \in SUBSET ScanNames}
  IN recordStores \cup {writeFile(store, NotesName, NotesText) : store \in recordStores}

InitScan ==
  /\ InitTool
  /\ records \in Stores
  /\ photos = EmptyDir
  /\ logos = {}
  /\ before = [records |-> records, photos |-> EmptyDir, succeeded |-> {}]
  /\ input = <<>>

NextScan == Scan

SpecScan == InitScan /\ [][NextScan]_vars

(***************************************************************************)
(* SpecPhoto: saves of one title whose photos are drawn from payloads of   *)
(* several forms                                                           *)
(***************************************************************************)
\* The payloads drawn: raw base64, and data URIs of three subtypes
PhotoPayloads ==
  { <<"Q", "Q", "=", "=">>,
    <<"d", "a", "t", "a", ":", "i", "m", "a", "g", "e", "/", "p", "n", "g", ";", "b", "a", "s", "e", "6", "4", ",", "Q", "g", "=", "=">>,
    <<"d", "a", "t", "a", ":", "i", "m", "a", "g", "e", "/", "j", "p", "e", "g", ";", "b", "a", "s", "e", "6", "4", ",", "Q", "0", "Q", "=">>,
    <<"d", "a", "t", "a", ":", "i", "m", "a", "g", "e", "/", "s", "v", "g", "+", "x", "m", "l", ";", "b", "a", "s", "e", "6", "4", ",", "R", "Q", "=", "=">> }

PhotoLists == UNION {[1..n -> PhotoPayloads] : n \in 1..MaxPhotos}

SavePhotoList ==
  \E list \in PhotoLists :
    Save([title |-> <<"Q">>, manufacturer |-> <<"F">>, date |-> SomeDate, scale |-> <<"2", "8", "m", "m">>,
          game |-> None, faction |-> None, order |-> None, photos |-> list])

NextPhoto == SavePhotoList

SpecPhoto == InitWith({}) /\ [][NextPhoto]_vars

(***************************************************************************)
(* SpecFault: saves during which a call of writeFileSync may throw         *)
(***************************************************************************)
\* What a call of writeFileSync that throws leaves at its path: no file, or
\* a file with the first part of the data
Leavings == {"nothing", "part"}

failedWrite(dir, name, data, leaves) ==
  IF leaves = "nothing" THEN dir
  ELSE writeFile(dir, name, SubSeq(data, 1, Len(data) \div 2))

\* The message of the error thrown
WriteErrorMessage == <<"E", "N", "O", "S", "P", "C", ":", " ", "n", "o", " ", "s", "p", "a", "c", "e", " ", "l", "e", "f", "t", " ", "o", "n", " ", "d", "e", "v", "i", "c", "e", ",", " ", "w", "r", "i", "t", "e">>

\* The faults of a save with n photos: the write of the photo at index
\* at < n, or of the record for at = n, throws
Faults(n) == [at : 0..n, leaves : Leavings]

\* A faulty handleSaveFault: the record is written before the photos
handleSaveFault_RecordFirst(data, recordFiles, photoFiles, logoFiles, fault) ==
  LET r == handleSave(data, recordFiles, photoFiles, logoFiles)
      slug == slugify(data.title)
      saved == savePhotos(photoFiles, <<>>, slug, SubSeq(data.photos, 1, fault.at), 0)
  IN IF r.status # 200 THEN r
     ELSE [status |-> 500,
           body |-> [error |-> WriteErrorMessage],
           records |-> writeFile(recordFiles, yamlFilename(slug), buildYaml(data, slug)),
           photos |-> saved.files,
           written |-> <<[dir |-> MiniaturesDir, name |-> yamlFilename(slug)]>>
                       \o saved.written]

\* A faulty handleSaveFault: the files written before the fault are removed
handleSaveFault_RollsBack(data, recordFiles, photoFiles, logoFiles, fault) ==
  LET r == handleSave(data, recordFiles, photoFiles, logoFiles)
  IN IF r.status # 200 THEN r
     ELSE [status |-> 500,
           body |-> [error |-> WriteErrorMessage],
           records |-> recordFiles,
           photos |-> photoFiles,
           written |-> savePhotos(photoFiles, <<>>, slugify(data.title),
                                  SubSeq(data.photos, 1, fault.at), 0).written]

\* handleSave(body) when the write named by the fault throws, as the request
\* handler answers it: the checks come first, the photos before the fault
\* are written, and the error is caught and answered with status 500
handleSaveFault(data, recordFiles, photoFiles, logoFiles, fault) ==
  LET r == handleSave(data, recordFiles, photoFiles, logoFiles)
  IN IF r.status # 200 THEN r
     ELSE
     LET slug == slugify(data.title)
         n == Len(data.photos)
         k == fault.at
         saved == savePhotos(photoFiles, <<>>, slug, SubSeq(data.photos, 1, k), 0)
     IN [status |-> 500,
         body |-> [error |-> WriteErrorMessage],
         records |-> IF k = n
                       THEN failedWrite(recordFiles, yamlFilename(slug),
                                        buildYaml(data, slug), fault.leaves)
                       ELSE recordFiles,
         photos |-> IF k < n
                      THEN failedWrite(saved.files, photoFilename(slug, k),
                                       base64Decode(stripDataUri(data.photos[k + 1])),
                                       fault.leaves)
                      ELSE saved.files,
         written |-> saved.written]

\* The submissions drawn: the slugs "", "q" and "q-2", all fields given
FaultSubmissions ==
  [title : {<<"!">>, <<"Q">>, <<"q", "-", "2">>},
   manufacturer : {<<"F">>},
   date : {SomeDate},
   scale : {<<"2", "8", "m", "m">>},
   game : {None}, faction : {None}, order : {None},
   photos : {PhotoList(n) : n \in 1..MaxPhotos}]

SaveComplete == \E data \in FaultSubmissions : Save(data)

\* POST /api/save with body data, during which a write throws
SaveFault ==
  \E data \in FaultSubmissions :
    \E fault \in Faults(Len(data.photos)) :
      LET r == handleSaveFault(data, records, photos, logos, fault)
      IN /\ r.status = 500
         /\ op' = "save"
         /\ req' = data
         /\ resp' = [status |-> r.status, body |-> r.body]
         /\ records' = r.records
         /\ photos' = r.photos
         /\ written' = r.written
         /\ before' = [records |-> records, photos |-> photos, succeeded |-> succeeded]
         /\ UNCHANGED <<logos, succeeded, input, derived, conn, page>>

NextFault == SaveComplete \/ SaveFault \/ Scan

SpecFault == InitWith({}) /\ [][NextFault]_vars

(***************************************************************************)
(* SpecHttp: two save requests whose chunks arrive in any order            *)
(***************************************************************************)
\* A text field of the body, and the photo list
jsonField(key, value) == <<"\"">> \o key \o <<"\"", ":", "\"">> \o value \o <<"\"">>

RECURSIVE jsonList(_)
jsonList(items) ==
  IF items = <<>> THEN <<>>
  ELSE <<"\"">> \o Head(items) \o <<"\"">>
       \o (IF Len(items) > 1 THEN <<",">> ELSE <<>>) \o jsonList(Tail(items))

\* JSON.stringify(payload), for texts without quote or backslash; a field
\* that is absent is left out
stringify(data) ==
  <<"{">> \o jsonField(<<"t", "i", "t", "l", "e">>, data.title)
  \o <<",">> \o jsonField(<<"m", "a", "n", "u", "f", "a", "c", "t", "u", "r", "e", "r">>, data.manufacturer)
  \o <<",">> \o jsonField(<<"d", "a", "t", "e">>, data.date)
  \o <<",">> \o jsonField(<<"s", "c", "a", "l", "e">>, data.scale)
  \o (IF data.game # None THEN <<",">> \o jsonField(<<"g", "a", "m", "e">>, data.game[1]) ELSE <<>>)
  \o (IF data.faction # None THEN <<",">> \o jsonField(<<"f", "a", "c", "t", "i", "o", "n">>, data.faction[1]) ELSE <<>>)
  \o (IF data.order # None THEN <<",", "\"", "o", "r", "d", "e", "r", "\"", ":">> \o IntToString(data.order[1]) ELSE <<>>)
  \o <<",", "\"", "p", "h", "o", "t", "o", "s", "\"", ":", "[">> \o jsonList(data.photos) \o <<"]", "}">>

\* The first position of text after an occurrence of pattern, or 0
After(text, pattern) ==
  LET at == {i \in 1..(Len(text) - Len(pattern) + 1) :
               SubSeq(text, i, i + Len(pattern) - 1) = pattern}
  IN IF at = {} THEN 0 ELSE (CHOOSE i \in at : \A j \in at : i <= j) + Len(pattern)

\* The text from position from up to the first character of the set stops
UpTo(text, from, stops) ==
  LET rest == SubSeq(text, from, Len(text))
  IN SubSeq(rest, 1, RunLength(rest, Range(rest) \ stops))

\* The value of a text field of the body, if the body has the field
textField(text, key) ==
  LET from == After(text, <<"\"">> \o key \o <<"\"", ":", "\"">>)
  IN IF from = 0 THEN None ELSE Some(UpTo(text, from, {"\""}))

RECURSIVE StringToNat(_)
StringToNat(digits) ==
  IF digits = <<>> THEN 0
  ELSE 10 * StringToNat(SubSeq(digits, 1, Len(digits) - 1))
       + (CHOOSE d \in 0..9 : DigitChars[d + 1] = digits[Len(digits)])

numberField(text, key) ==
  LET from == After(text, <<"\"">> \o key \o <<"\"", ":">>)
      digits == IF from = 0 THEN <<>> ELSE UpTo(text, from, {",", "}"})
  IN IF digits = <<>> \/ Range(digits) \ Range(DigitChars) # {} THEN None
     ELSE Some(StringToNat(digits))

RECURSIVE listItems(_)
listItems(text) ==
  IF text = <<>> THEN <<>>
  ELSE LET item == UpTo(text, 2, {"\""})
       IN <<item>> \o listItems(SubSeq(text, Len(item) + 4, Len(text)))

listField(text, key) ==
  LET from == After(text, <<"\"">> \o key \o <<"\"", ":", "[">>)
  IN IF from = 0 THEN <<>> ELSE listItems(UpTo(text, from, {"]"}))

\* The fields read from the body
bodyFields(text) ==
  LET text4(key) == IF textField(text, key) = None THEN <<>> ELSE textField(text, key)[1]
  IN [title |-> text4(<<"t", "i", "t", "l", "e">>), manufacturer |-> text4(<<"m", "a", "n", "u", "f", "a", "c", "t", "u", "r", "e", "r">>),
      date |-> text4(<<"d", "a", "t", "e">>), scale |-> text4(<<"s", "c", "a", "l", "e">>),
      game |-> textField(text, <<"g", "a", "m", "e">>), faction |-> textField(text, <<"f", "a", "c", "t", "i", "o", "n">>),
      order |-> numberField(text, <<"o", "r", "d", "e", "r">>), photos |-> listField(text, <<"p", "h", "o", "t", "o", "s">>)]

\* JSON.parse(body) on the bodies that stringify writes; any other text is
\* a syntax error
parses(text) == stringify(bodyFields(text)) = text

SyntaxErrorMessage == <<"U", "n", "e", "x", "p", "e", "c", "t", "e", "d", " ", "t", "o", "k", "e", "n", " ", "i", "n", " ", "J", "S", "O", "N">>

\* The chunks of a body cut at the given positions
chunks(text, cut) ==
  IF cut = 0 THEN <<text>>
  ELSE <<SubSeq(text, 1, cut), SubSeq(text, cut + 1, Len(text))>>

\* The cuts drawn: none, after the first character, and in the middle
Cuts(text) == {0, 1, Len(text) \div 2}

\* The bodies drawn on a connection: the titles "Q" and "q" derive the same
\* slug; the manufacturer may be empty
HttpSubmissions(id) ==
  [title : {IF id = 1 THEN <<"Q">> ELSE <<"q">>},
   manufacturer : {<<>>, <<"F">>},
   date : {SomeDate},
   scale : {<<"2", "8", "m", "m">>},
   game : {None}, faction : {None}, order : {None},
   photos : {PhotoList(n) : n \in 1..MaxPhotos}]

\* Another connection has received a part of its body and not yet all of it
Halfway(c, id) ==
  \E i \in Connections \ {id} :
    c[i].state = "open" /\ c[i].body # <<>> /\ c[i].unsent # <<>>

\* A faulty accumulate: one body for all connections
accumulate_Shared(c, id, chunk) ==
  [i \in Connections |->
     [c[i] EXCEPT !.body = @ \o chunk,
                  !.unsent = IF i = id THEN Tail(@) ELSE @,
                  !.mixed = IF i = id THEN @ \/ Halfway(c, id) ELSE @]]

\* req.on('data', chunk => { body += chunk; }): the body of the request
accumulate(c, id, chunk) ==
  [c EXCEPT ![id].body = @ \o chunk, ![id].unsent = Tail(@),
            ![id].mixed = @ \/ Halfway(c, id)]

\* The request handler is called for POST /api/save: let body = ''
RequestArrives(id) ==
  /\ conn[id].state = "none"
  /\ \E data \in HttpSubmissions(id) :
       \E cut \in Cuts(stringify(data)) :
         conn' = [conn EXCEPT ![id] = [state |-> "open",
                                       unsent |-> chunks(stringify(data), cut),
                                       body |-> <<>>,
                                       res |-> NoResponse,
                                       mixed |-> FALSE]]
  /\ UNCHANGED <<records, photos, logos, op, req, resp, written, before, succeeded,
                 input, derived, page>>

\* The 'data' event of the request
ChunkArrives(id) ==
  /\ conn[id].state = "open"
  /\ conn[id].unsent # <<>>
  /\ conn' = accumulate(conn, id, Head(conn[id].unsent))
  /\ UNCHANGED <<records, photos, logos, op, req, resp, written, before, succeeded,
                 input, derived, page>>

\* The 'end' event of the request: handleSave(body) runs to its end and the
\* response is sent; an error thrown is answered with status 500
RequestEnds(id) ==
  /\ conn[id].state = "open"
  /\ conn[id].unsent = <<>>
  /\ LET body == conn[id].body
         data == bodyFields(body)
         r == IF parses(body) THEN handleSave(data, records, photos, logos)
              ELSE Failure(500, SyntaxErrorMessage, records, photos)
     IN /\ op' = "save"
        /\ req' = data
        /\ resp' = [status |-> r.status, body |-> r.body]
        /\ records' = r.records
        /\ photos' = r.photos
        /\ written' = r.written
        /\ before' = [records |-> records, photos |-> photos, succeeded |-> succeeded]
        /\ succeeded' = IF r.status = 200 THEN succeeded \cup {r.body.slug} ELSE succeeded
        /\ conn' = [conn EXCEPT ![id].state = "done",
                                ![id].res = [status |-> r.status, body |-> r.body]]
  /\ UNCHANGED <<logos, input, derived, page>>

NextHttp ==
  \E id \in Connections : RequestArrives(id) \/ ChunkArrives(id) \/ RequestEnds(id)

SpecHttp == InitWith({}) /\ [][NextHttp]_vars

(***************************************************************************)
(* SpecPage: the form page, its events and its save requests               *)
(***************************************************************************)
\* The variables the page does not touch
ToolVars == <<records, photos, logos, op, req, resp, written, before, succeeded,
              input, derived, conn>>

\* The value of the option "+ Add new..."
NewOption == <<"_", "_", "n", "e", "w", "_", "_">>

\* String.prototype.trim
trim(s) ==
  LET inked == {i \in 1..Len(s) : s[i] \notin SpaceChars}
  IN IF inked = {} THEN <<>>
     ELSE SubSeq(s, CHOOSE i \in inked : \A j \in inked : i <= j,
                    CHOOSE i \in inked : \A j \in inked : i >= j)

getFieldValue(p, id) ==
  IF p.select[id] = NewOption THEN trim(p.newValue[id]) ELSE p.select[id]

isNewValueDuplicate(p, id) ==
  /\ p.select[id] = NewOption
  /\ trim(p.newValue[id]) # <<>>
  /\ toLowerCase(trim(p.newValue[id])) \in {toLowerCase(v) : v \in p.options[id]}

isSlugTaken(p, slug) ==
  /\ slug # <<>>
  /\ p.metadata # None
  /\ slug \in Range(p.metadata[1].slugs)

updateSaveBtn(p) ==
  [p EXCEPT !.disabled =
     ~(/\ trim(p.title) # <<>>
       /\ getFieldValue(p, <<"m", "a", "n", "u", "f", "a", "c", "t", "u", "r", "e", "r">>) # <<>>
       /\ p.date # <<>>
       /\ getFieldValue(p, <<"s", "c", "a", "l", "e">>) # <<>>
       /\ p.photos > 0
       /\ ~isSlugTaken(p, slugify(trim(p.title)))
       /\ ~\E id \in DropdownIds : isNewValueDuplicate(p, id))]

\* The options are replaced; the first option, with the empty value, is
\* selected unless the default value is among them
populateDropdown(p, id, values, defaultValue) ==
  [p EXCEPT !.options[id] = Range(values),
            !.select[id] = IF defaultValue # None /\ defaultValue[1] \in Range(values)
                             THEN defaultValue[1] ELSE <<>>]

\* The then-callback of loadMetadata
metadataLoaded(p, data) ==
  LET p1 == [p EXCEPT !.metadata = Some(data)]
      p2 == populateDropdown(p1, <<"m", "a", "n", "u", "f", "a", "c", "t", "u", "r", "e", "r">>, data.manufacturers, None)
      p3 == populateDropdown(p2, <<"s", "c", "a", "l", "e">>, data.scales, Some(<<"2", "8", "m", "m">>))
      p4 == populateDropdown(p3, <<"g", "a", "m", "e">>, data.games, None)
  IN populateDropdown(p4, <<"f", "a", "c", "t", "i", "o", "n">>, data.factions, None)

setDropdownValue(p, id, value) ==
  [p EXCEPT !.select[id] = IF value \in p.options[id] \cup {<<>>, NewOption}
                             THEN value ELSE <<>>,
            !.newValue[id] = <<>>]

\* The sequence without its element at position i
Without(seq, i) == SubSeq(seq, 1, i - 1) \o SubSeq(seq, i + 1, Len(seq))

\* The inputs drawn
TitleTexts == {<<>>, <<" ">>, <<"Q">>}
DateTexts == {<<>>, SomeDate}
OrderTexts == {<<>>}
NewTexts == {<<"f">>}
DropdownsUsed == {<<"m", "a", "n", "u", "f", "a", "c", "t", "u", "r", "e", "r">>}
MetadataResponses ==
  [manufacturers : {<<<<"F">>>>}, games : {<<>>}, factions : {<<>>}, scales : {<<<<"2", "8", "m", "m">>>>},
   slugs : {<<>>, <<<<"q">>>>}]

\* The first loadMetadata() of the page resolves
PageLoaded ==
  /\ page.metadata = None
  /\ \E data \in MetadataResponses : page' = metadataLoaded(page, data)
  /\ UNCHANGED ToolVars

\* The 'input' event of the title
TitleInput ==
  /\ \E t \in TitleTexts : page' = updateSaveBtn([page EXCEPT !.title = t])
  /\ UNCHANGED ToolVars

\* The 'change' event of the date
DateChange ==
  /\ \E d \in DateTexts : page' = updateSaveBtn([page EXCEPT !.date = d])
  /\ UNCHANGED ToolVars

\* The 'input' event of the order
OrderInput ==
  /\ \E o \in OrderTexts : page' = updateSaveBtn([page EXCEPT !.order = o])
  /\ UNCHANGED ToolVars

\* The 'change' event of a dropdown
DropdownChange ==
  /\ page.metadata # None
  /\ \E id \in DropdownsUsed :
       \E v \in page.options[id] \cup {<<>>, NewOption} :
         page' = updateSaveBtn(
                   [page EXCEPT !.select[id] = v,
                                !.newValue[id] = IF v = NewOption THEN @ ELSE <<>>])
  /\ UNCHANGED ToolVars

\* The 'input' event of the new value of a dropdown
NewValueInput ==
  /\ page.metadata # None
  /\ \E id \in DropdownsUsed :
       /\ page.select[id] = NewOption
       /\ \E t \in NewTexts : page' = updateSaveBtn([page EXCEPT !.newValue[id] = t])
  /\ UNCHANGED ToolVars

\* reader.onload of a photo added
PhotoLoaded ==
  /\ page.photos < MaxPhotos
  /\ page' = updateSaveBtn([page EXCEPT !.photos = @ + 1])
  /\ UNCHANGED ToolVars

\* The click on the remove button of a photo
PhotoRemoved ==
  /\ page.photos > 0
  /\ page' = updateSaveBtn([page EXCEPT !.photos = @ - 1])
  /\ UNCHANGED ToolVars

\* The click on Clear
ClearClick ==
  /\ LET p1 == [page EXCEPT !.title = <<>>, !.date = SomeDate, !.order = <<>>]
         p2 == setDropdownValue(p1, <<"m", "a", "n", "u", "f", "a", "c", "t", "u", "r", "e", "r">>, <<>>)
         p3 == setDropdownValue(p2, <<"s", "c", "a", "l", "e">>, <<"2", "8", "m", "m">>)
         p4 == setDropdownValue(p3, <<"g", "a", "m", "e">>, <<>>)
     IN page' = updateSaveBtn(setDropdownValue(p4, <<"f", "a", "c", "t", "i", "o", "n">>, <<>>))
  /\ UNCHANGED ToolVars

\* The click on Save, which a disabled button does not get: the button is
\* disabled and the request is sent. Of the payload the call keeps what is
\* used after the response
SaveClick ==
  /\ ~page.disabled
  /\ Len(page.calls) < MaxRequests
  /\ LET payload == [manufacturer |-> getFieldValue(page, <<"m", "a", "n", "u", "f", "a", "c", "t", "u", "r", "e", "r">>),
                     date |-> page.date,
                     scale |-> getFieldValue(page, <<"s", "c", "a", "l", "e">>),
                     game |-> getFieldValue(page, <<"g", "a", "m", "e">>),
                     faction |-> getFieldValue(page, <<"f", "a", "c", "t", "i", "o", "n">>),
                     order |-> IF page.order # <<>> THEN StringToNat(page.order) ELSE 0]
     IN page' = [page EXCEPT !.disabled = TRUE,
                             !.calls = Append(@, [phase |-> "save", payload |-> payload])]
  /\ UNCHANGED ToolVars

\* The response of a save request is refused by the server, or fetch fails:
\* the button is enabled
SaveFails ==
  /\ \E i \in 1..Len(page.calls) :
       /\ page.calls[i].phase = "save"
       /\ page' = [page EXCEPT !.disabled = FALSE, !.calls = Without(@, i)]
  /\ UNCHANGED ToolVars

\* The response of a save request is a success: title and photos are
\* cleared and the metadata is asked for
SaveSucceeds ==
  /\ \E i \in 1..Len(page.calls) :
       /\ page.calls[i].phase = "save"
       /\ page' = [page EXCEPT !.title = <<>>, !.photos = 0,
                               !.calls[i].phase = "metadata"]
  /\ UNCHANGED ToolVars

\* The metadata asked for after a save arrives: the dropdowns are filled
\* again, the values kept are put back and the button is updated
Refreshed ==
  /\ \E i \in 1..Len(page.calls) :
       \E data \in MetadataResponses :
         LET keep == page.calls[i].payload
             p0 == metadataLoaded(page, data)
             p1 == [p0 EXCEPT !.date = keep.date]
             p2 == setDropdownValue(p1, <<"m", "a", "n", "u", "f", "a", "c", "t", "u", "r", "e", "r">>, keep.manufacturer)
             p3 == setDropdownValue(p2, <<"s", "c", "a", "l", "e">>, keep.scale)
             p4 == setDropdownValue(p3, <<"g", "a", "m", "e">>, keep.game)
             p5 == setDropdownValue(p4, <<"f", "a", "c", "t", "i", "o", "n">>, keep.faction)
             p6 == [p5 EXCEPT !.order = IF keep.order # 0
                                          THEN NatToString(keep.order + 1) ELSE <<>>,
                              !.calls = Without(@, i)]
         IN /\ page.calls[i].phase = "metadata"
            /\ page' = updateSaveBtn(p6)
  /\ UNCHANGED ToolVars

\* The metadata asked for after a save does not arrive: the button is
\* enabled
RefreshFails ==
  /\ \E i \in 1..Len(page.calls) :
       /\ page.calls[i].phase = "metadata"
       /\ page' = [page EXCEPT !.disabled = FALSE, !.calls = Without(@, i)]
  /\ UNCHANGED ToolVars

NextPage ==
  \/ PageLoaded \/ TitleInput \/ DateChange \/ OrderInput \/ DropdownChange
  \/ NewValueInput \/ PhotoLoaded \/ PhotoRemoved \/ ClearClick
  \/ SaveClick \/ SaveFails \/ SaveSucceeds \/ Refreshed \/ RefreshFails

SpecPage == InitWith({}) /\ [][NextPage]_vars

(***************************************************************************)
(* Properties                                                              *)
(***************************************************************************)
\* text contains sub
Contains(text, sub) ==
  \E i \in 1..(Len(text) - Len(sub) + 1) : SubSeq(text, i, i + Len(sub) - 1) = sub

\* The slug of the last request
ReqSlug == slugify(req.title)

\* The file names the specification gives to the images and to the record
ImageName(s, i) == s \o (IF i = 0 THEN <<>> ELSE <<"-">> \o NatToString(i + 1)) \o <<".", "p", "n", "g">>
RecordName(s) == s \o <<".", "y", "a", "m", "l">>

\* The last request was a save that had to fail validation
ValidationCase ==
  \/ req.title = <<>> \/ req.manufacturer = <<>> \/ req.date = <<>> \/ req.scale = <<>>
  \/ Len(req.photos) = 0
  \/ ReqSlug = <<>>

\* The positions of the last request whose image file existed before it
TakenPositions == {i \in 0..(Len(req.photos) - 1) : ImageName(ReqSlug, i) \in DOMAIN before.photos}

\* The last request was a save that met an existing record or image file
ConflictCase ==
  \/ RecordName(ReqSlug) \in DOMAIN before.records
  \/ TakenPositions # {}

NothingWritten ==
  /\ records = before.records
  /\ photos = before.photos
  /\ written = <<>>

\* C1: a save that ends in a validation failure (an empty required field, an
\* empty photo list, an empty slug) or in a conflict failure (the record or a
\* target image file exists) leaves every file as it was: nothing is created
\* or changed.
C1_FailedSaveWritesNothing ==
  (op = "save" /\ (resp.status # 200 \/ ValidationCase \/ ConflictCase))
    => /\ resp.status \in {400, 409}
       /\ NothingWritten

\* A save with two photos fails on the record of its slug while the target
\* of its second photo is free
C1_Witness ==
  /\ op = "save"
  /\ resp.status = 409
  /\ RecordName(ReqSlug) \in DOMAIN before.records
  /\ Len(req.photos) = 2
  /\ ImageName(ReqSlug, 1) \notin DOMAIN photos

\* The bytes of the two payloads drawn: base64 "QQ==" is the byte 65 and
\* "Qg==" the byte 66
PayloadBytes(payload) == IF payload = PhotoRaw THEN <<65>> ELSE <<66>>

IsPhotoLine(line) == startsWith(line, <<" ", " ", "-", " ", "\"">>) /\ endsWith(line, <<"\"">>)

\* The photo list of a record: the quoted entries of its bulleted block
RecordPhotos(text) ==
  LET entries == SelectSeq(split(text), IsPhotoLine)
  IN [i \in 1..Len(entries) |-> SubSeq(entries[i], 6, Len(entries[i]) - 1)]

\* C2: a save with all required fields, n >= 1 images, a non-empty slug s and
\* neither the record nor a target image file on disk succeeds, returns s and
\* creates exactly n + 1 files: image 0 as s.png, image i > 0 as s-(i+1).png,
\* written in that order, then the record s.yaml, whose photo list names the
\* n image files in submission order.
C2_SaveCreatesImagesThenRecord ==
  (op = "save" /\ ~ValidationCase /\ ~ConflictCase)
    => LET n == Len(req.photos)
           s == ReqSlug
       IN /\ resp.status = 200
          /\ resp.body.slug = s
          /\ Len(written) = n + 1
          /\ \A i \in 0..(n - 1) :
               /\ written[i + 1] = [dir |-> PhotosDir, name |-> ImageName(s, i)]
               /\ photos[ImageName(s, i)] = PayloadBytes(req.photos[i + 1])
          /\ written[n + 1] = [dir |-> MiniaturesDir, name |-> RecordName(s)]
          /\ DOMAIN photos = DOMAIN before.photos \cup {ImageName(s, i) : i \in 0..(n - 1)}
          /\ DOMAIN records = DOMAIN before.records \cup {RecordName(s)}
          /\ Cardinality(DOMAIN photos) + Cardinality(DOMAIN records)
               = Cardinality(DOMAIN before.photos) + Cardinality(DOMAIN before.records) + n + 1
          /\ \A f \in DOMAIN before.photos : photos[f] = before.photos[f]
          /\ \A f \in DOMAIN before.records : records[f] = before.records[f]
          /\ RecordPhotos(records[RecordName(s)])
               = [i \in 1..n |-> <<".", ".", "/", ".", ".", "/", "a", "s", "s", "e", "t", "s", "/", "p", "h", "o", "t", "o", "s", "/">> \o ImageName(s, i - 1)]

\* A second record is saved, with two photos
C2_Witness ==
  /\ op = "save"
  /\ resp.status = 200
  /\ Len(req.photos) = 2
  /\ before.records # EmptyDir

\* The required fields other than the title are present
FieldsPresent ==
  /\ req.manufacturer # <<>> /\ req.date # <<>> /\ req.scale # <<>>
  /\ Len(req.photos) > 0

RefusedAsConflict(s) ==
  /\ resp.status = 409
  /\ Contains(resp.body.error, s)
  /\ NothingWritten

\* C3 as stated: once a save with slug s has succeeded, every later save whose
\* title derives s fails with a 409 whose message references s and writes
\* nothing.
C3_EveryLaterSaveConflicts ==
  (op = "save" /\ ReqSlug \in before.succeeded) => RefusedAsConflict(ReqSlug)

\* C3 as amended: once a save with slug s has succeeded, every later save
\* with all required fields present whose title derives s fails with a 409
\* whose message references s and writes nothing.
C3_LaterCompleteSaveConflicts ==
  (op = "save" /\ ReqSlug \in before.succeeded /\ FieldsPresent) => RefusedAsConflict(ReqSlug)

\* The slug was saved, another slug was saved after it, and a complete save
\* with another title of the first slug is refused
C3_Witness ==
  /\ op = "save"
  /\ FieldsPresent
  /\ before.succeeded = {<<"q">>, <<"q", "-", "2">>}
  /\ req.title = <<"Q", " ", "2">>
  /\ resp.status = 409

\* The outcome C4 describes: a 409 naming the file of the lowest position
\* whose target exists, and no file written, the free targets included
RefusedForImage ==
  LET lowest == CHOOSE i \in TakenPositions : \A j \in TakenPositions : i <= j
  IN /\ resp.status = 409
     /\ Contains(resp.body.error, <<"\"">> \o ImageName(ReqSlug, lowest) \o <<"\"">>)
     /\ NothingWritten
     /\ \A i \in 0..(Len(req.photos) - 1) :
          ImageName(ReqSlug, i) \notin DOMAIN before.photos
            => ImageName(ReqSlug, i) \notin DOMAIN photos

\* C4 as stated: the check of the image file names comes before every write:
\* when no record exists at the slug but the target of some image position
\* exists, the save fails with a 409 naming the file of the lowest such
\* position and writes no image, not even the ones of earlier positions whose
\* targets were free.
C4_ImageConflictRefused ==
  (/\ op = "save"
   /\ RecordName(ReqSlug) \notin DOMAIN before.records
   /\ TakenPositions # {})
    => RefusedForImage

\* C4 as amended: the same, for a save with all required fields present.
C4_CompleteSaveImageConflictRefused ==
  (/\ op = "save"
   /\ FieldsPresent
   /\ RecordName(ReqSlug) \notin DOMAIN before.records
   /\ TakenPositions # {})
    => RefusedForImage

\* The target of the second photo exists, the target of the first is free and
\* stays free
C4_Witness ==
  /\ op = "save"
  /\ FieldsPresent
  /\ RecordName(ReqSlug) \notin DOMAIN before.records
  /\ TakenPositions = {1}
  /\ ImageName(ReqSlug, 0) \notin DOMAIN photos

\* C5: slugify is idempotent on every title whose slug is not empty:
\* slugify(slugify(t)) = slugify(t).
C5_SlugifyIdempotent ==
  (Len(derived) = 2 /\ derived[1] # <<>>) => derived[2] = derived[1]

\* A title that slugify changes, to a slug with an inner hyphen, slugified twice
C5_Witness ==
  /\ Len(derived) = 2
  /\ derived[1] # input
  /\ "-" \in Range(derived[1])

WellFormedSlug(s) ==
  /\ Range(s) \subseteq Range(LowerChars) \cup Range(DigitChars) \cup {"-"}
  /\ s # <<>> => (s[1] # "-" /\ s[Len(s)] # "-")
  /\ \A i \in 1..(Len(s) - 1) : ~(s[i] = "-" /\ s[i + 1] = "-")

\* A file name that stays in its directory: no separator, and no dot but the
\* one of the extension, which something precedes
DirectChild(name) ==
  /\ "/" \notin Range(name)
  /\ Cardinality({i \in 1..Len(name) : name[i] = "."}) = 1
  /\ name[1] # "."

\* C6: the result of slugify is empty or made of [a-z0-9-] only, with no
\* hyphen at either end and no two hyphens in a row; save never uses an empty
\* slug, so every path it writes is a direct child of the records or of the
\* photos directory: no separator and no dot comes from the title.
C6_SlugIsSafeFileName ==
  /\ Len(derived) >= 1 => WellFormedSlug(derived[1])
  /\ written # <<>> => (ReqSlug # <<>> /\ resp.body.slug = ReqSlug)
  /\ \A i \in 1..Len(written) : DirectChild(written[i].name)
  /\ \A name \in DOMAIN records \cup DOMAIN photos : DirectChild(name)

\* A title with a separator and a dot has been slugified and saved with two
\* photos
C6_Witness ==
  /\ Len(derived) >= 1
  /\ {"/", "."} \subseteq Range(input)
  /\ op = "save"
  /\ resp.status = 200
  /\ Len(written) = 3

\* The icon path the specification expects for a value of a category
ExpectedLogo(kind, value) == kind \o <<"/">> \o slugify(value) \o <<".", "p", "n", "g">>

ManufacturerLogo == ExpectedLogo(<<"m", "a", "n", "u", "f", "a", "c", "t", "u", "r", "e", "r", "s">>, req.manufacturer)

\* The games and factions of the last request that have no icon
OtherMissingLogos ==
  {p \in {<<<<"g", "a", "m", "e", "s">>, req.game>>, <<<<"f", "a", "c", "t", "i", "o", "n", "s">>, req.faction>>} :
     /\ p[2] # None /\ p[2][1] # <<>>
     /\ ExpectedLogo(p[1], p[2][1]) \notin logos}

SaveWithoutManufacturerLogo ==
  /\ op = "save"
  /\ ~ValidationCase
  /\ ~ConflictCase
  /\ ManufacturerLogo \notin logos

\* C7 as stated: an otherwise valid save without conflict whose manufacturer
\* has no icon succeeds, and its warnings list has exactly one entry, which
\* names the expected icon path.
C7_OneWarningOnly ==
  SaveWithoutManufacturerLogo
    => /\ resp.status = 200
       /\ Len(resp.body.warnings) = 1
       /\ Contains(resp.body.warnings[1], ManufacturerLogo)

\* C7 as amended: such a save succeeds (record and image are written) and
\* exactly one entry of its warnings list names the expected manufacturer
\* icon path; the list has one more entry for each non-empty game or faction
\* without an icon.
C7_OneManufacturerWarning ==
  SaveWithoutManufacturerLogo
    => /\ resp.status = 200
       /\ RecordName(ReqSlug) \in DOMAIN records
       /\ ImageName(ReqSlug, 0) \in DOMAIN photos
       /\ Cardinality({i \in 1..Len(resp.body.warnings) :
                         Contains(resp.body.warnings[i], ManufacturerLogo)}) = 1
       /\ Len(resp.body.warnings) = 1 + Cardinality(OtherMissingLogos)

\* The manufacturer, the game and the faction all lack their icon
C7_Witness ==
  /\ SaveWithoutManufacturerLogo
  /\ resp.status = 200
  /\ Len(resp.body.warnings) = 3

NoMetadata == [manufacturers |-> <<>>, games |-> <<>>, factions |-> <<>>,
               scales |-> <<>>, slugs |-> <<>>]

\* C8: scan of the empty store returns four empty lists and no slug, and
\* after a successful save scan returns the manufacturer, the scale and the
\* non-empty game and faction of the submission, each as the text submitted.
C8_SaveScanRoundTrip ==
  \A listing \in Listings(records) :
    LET m == getMetadata(records, listing)
    IN /\ records = EmptyDir => m = NoMetadata
       /\ (op = "save" /\ resp.status = 200)
            => /\ req.manufacturer \in Range(m.manufacturers)
               /\ req.scale \in Range(m.scales)
               /\ Truthy(req.game) => req.game[1] \in Range(m.games)
               /\ Truthy(req.faction) => req.faction[1] \in Range(m.factions)

\* The lines of the record files of the store
RecordLines ==
  UNION {Range(split(records[f])) : f \in {g \in DOMAIN records : endsWith(g, <<".", "y", "a", "m", "l">>)}}

\* The values on the lines of a key
KeyValues(key) ==
  {matchLine(l).value : l \in {k \in RecordLines : matchLine(k).matched /\ matchLine(k).key = key}}

StrictlyAscending(list) == \A i \in 1..(Len(list) - 1) : StrLess(list[i], list[i + 1])

ListsValuesOf(list, key) == StrictlyAscending(list) /\ Range(list) = KeyValues(key)

\* C9: whatever the store holds, each of the four lists of scan is sorted
\* ascending without duplicate and holds exactly the distinct values of the
\* lines of its own key in all record files; a file without a line for a key
\* adds nothing to it and is no error.
C9_ScanListsSortedDistinct ==
  op = "scan"
    => /\ resp.status = 200
       /\ ListsValuesOf(resp.body.manufacturers, <<"m", "a", "n", "u", "f", "a", "c", "t", "u", "r", "e", "r">>)
       /\ ListsValuesOf(resp.body.games, <<"g", "a", "m", "e">>)
       /\ ListsValuesOf(resp.body.factions, <<"f", "a", "c", "t", "i", "o", "n">>)
       /\ ListsValuesOf(resp.body.scales, <<"s", "c", "a", "l", "e">>)

\* Two record files name the same manufacturer, one of them has no scale
\* line, and the scan lists two manufacturers
C9_Witness ==
  /\ op = "scan"
  /\ Len(resp.body.manufacturers) = 2
  /\ \A f \in {<<"r", "1", ".", "y", "a", "m", "l">>, <<"r", "2", ".", "y", "a", "m", "l">>} :
       /\ f \in DOMAIN records
       /\ \E l \in Range(split(records[f])) :
            matchLine(l).matched /\ matchLine(l).key = <<"m", "a", "n", "u", "f", "a", "c", "t", "u", "r", "e", "r">> /\ matchLine(l).value = <<"B">>
  /\ \E f \in {<<"r", "1", ".", "y", "a", "m", "l">>, <<"r", "2", ".", "y", "a", "m", "l">>} :
       \A l \in Range(split(records[f])) : ~(matchLine(l).matched /\ matchLine(l).key = <<"s", "c", "a", "l", "e">>)

\* A complete submission with the given title
Probe(title) ==
  [title |-> title, manufacturer |-> <<"F">>, date |-> SomeDate, scale |-> <<"2", "8", "m", "m">>,
   game |-> None, faction |-> None, order |-> None, photos |-> PhotoList(1)]

\* A save with the title would now fail on the existing identifier
IdentifierConflict(title) ==
  LET r == handleSave(Probe(title), records, photos, logos)
  IN r.status = 409 /\ startsWith(r.body.error, <<"A", " ", "m", "i", "n", "i", "a", "t", "u", "r", "e", " ", "w", "i", "t", "h", " ", "s", "l", "u", "g">>)

ProbeTitles == {<<"!">>, <<"Q">>, <<"q">>, <<"Q", " ", "2">>, <<"q", "-", "2">>, <<"q", " ", "3">>}

\* C10: in every state the slugs of scan are the identifiers on which save
\* reports the identifier conflict: s is in scan().slugs exactly when a save
\* whose title derives s would fail with it; after a successful save
\* returning s, the list holds s exactly once.
C10_ScanSlugsAreTakenIdentifiers ==
  \A listing \in Listings(records) :
    LET slugs == getMetadata(records, listing).slugs
    IN /\ \A t \in ProbeTitles : slugify(t) \in Range(slugs) <=> IdentifierConflict(t)
       /\ \A s \in Range(slugs) : slugify(s) = s /\ IdentifierConflict(s)
       /\ (op = "save" /\ resp.status = 200)
            => Cardinality({i \in 1..Len(slugs) : slugs[i] = resp.body.slug}) = 1

\* The second record has just been saved
C10_Witness ==
  /\ op = "save"
  /\ resp.status = 200
  /\ Cardinality(DOMAIN records) = 2

\* The key of a line of a record: the mark of a list item, or the text
\* before the first colon
LineKey(line) ==
  LET colons == {i \in 1..Len(line) : line[i] = ":"}
  IN IF IsPhotoLine(line) THEN <<"-">>
     ELSE IF colons = {} THEN line
     ELSE SubSeq(line, 1, (CHOOSE i \in colons : \A j \in colons : i <= j) - 1)

\* The keys of the lines of a record, in the order of the lines
RecordKeys(text) == [i \in 1..Len(split(text)) |-> LineKey(split(text)[i])]

\* The keys the specification gives the record of the last request: the
\* five required fields with one list item per photo, then each optional
\* field that the submission holds (a text that is not empty, any integer),
\* and the empty line after the last line feed
ExpectedKeys ==
  <<<<"t", "i", "t", "l", "e">>, <<"p", "h", "o", "t", "o", "s">>>>
  \o [i \in 1..Len(req.photos) |-> <<"-">>]
  \o <<<<"m", "a", "n", "u", "f", "a", "c", "t", "u", "r", "e", "r">>, <<"d", "a", "t", "e">>, <<"s", "c", "a", "l", "e">>>>
  \o (IF Truthy(req.game) THEN <<<<"g", "a", "m", "e">>>> ELSE <<>>)
  \o (IF Truthy(req.faction) THEN <<<<"f", "a", "c", "t", "i", "o", "n">>>> ELSE <<>>)
  \o (IF req.order # None THEN <<<<"o", "r", "d", "e", "r">>>> ELSE <<>>)
  \o <<<<>>>>

\* C11 as stated: the record of a successful save lists title, photos,
\* manufacturer, date and scale in that order, then game, faction and order,
\* each exactly when the submission holds it (order for every integer
\* submitted), and no line at all for an optional field that is absent.
C11_RecordFieldsInFixedOrder ==
  (op = "save" /\ resp.status = 200)
    => RecordKeys(records[RecordName(ReqSlug)]) = ExpectedKeys

\* The <payload> of an image payload: what follows the header of a text of
\* the form data:image/<subtype>;base64,<payload>, and the whole text of raw
\* base64
PayloadOf(text) ==
  LET marks == {i \in 1..(Len(text) - 7) : SubSeq(text, i, i + 7) = <<";", "b", "a", "s", "e", "6", "4", ",">>}
  IN IF startsWith(text, <<"d", "a", "t", "a", ":", "i", "m", "a", "g", "e", "/">>) /\ marks # {}
       THEN SubSeq(text, (CHOOSE i \in marks : \A j \in marks : i <= j) + 8, Len(text))
       ELSE text

\* The bytes that the base64 texts drawn stand for
Base64Value(payload) ==
  CASE payload = <<"Q", "Q", "=", "=">> -> <<65>>
    [] payload = <<"Q", "g", "=", "=">> -> <<66>>
    [] payload = <<"Q", "0", "Q", "=">> -> <<67, 68>>
    [] payload = <<"R", "Q", "=", "=">> -> <<69>>

\* C12 as stated: after a successful save the file of every image holds the
\* base64 decoding of its <payload> alone, for raw base64 and for a data URI
\* of every subtype: the header adds no byte.
C12_ImageBytesArePayload ==
  (op = "save" /\ resp.status = 200)
    => \A i \in 0..(Len(req.photos) - 1) :
         photos[ImageName(ReqSlug, i)] = Base64Value(PayloadOf(req.photos[i + 1]))

\* Every file of the directory before the last request is still there with
\* the same content
Kept(dirBefore, dirNow) ==
  \A f \in DOMAIN dirBefore : f \in DOMAIN dirNow /\ dirNow[f] = dirBefore[f]

\* The directory of a file written
DirBefore(file) == IF file.dir = MiniaturesDir THEN before.records ELSE before.photos

\* C13: records and image files are write-once. Every request, be it a
\* scan or a save that succeeds, is refused or meets a failing write, leaves
\* each file that was in the records or photos directory before it in place
\* with the same content, and every file a save writes is at a path where
\* there was none: so a file that has ever existed still exists unchanged.
C13_FilesAreWriteOnce ==
  /\ Kept(before.records, records)
  /\ Kept(before.photos, photos)
  /\ \A i \in 1..Len(written) : written[i].name \notin DOMAIN DirBefore(written[i])

\* A save succeeds on a store where a failed write had left part of a file
C13_Witness ==
  /\ op = "save"
  /\ resp.status = 200
  /\ \E f \in DOMAIN before.photos : before.photos[f] = <<>>
  /\ DOMAIN records # DOMAIN before.records

\* The places that name the image file: the record files and the positions
\* of their photo lists whose entry is the path of the file
References(file) ==
  {p \in UNION {{<<r, i>> : i \in 1..Len(RecordPhotos(records[r]))} : r \in DOMAIN records} :
     RecordPhotos(records[p[1]])[p[2]] = <<".", ".", "/", ".", ".", "/", "a", "s", "s", "e", "t", "s", "/", "p", "h", "o", "t", "o", "s", "/">> \o file}

ImageWriteFailed(data, k) ==
  /\ op = "save"
  /\ req = data
  /\ ~ValidationCase
  /\ ~ConflictCase
  /\ k < Len(data.photos)
  /\ Len(written) = k

\* The images before position k are on disk, no record has been written,
\* and the response is an error
LeftAfterFailure(data, k) ==
  /\ \A i \in 0..(k - 1) :
       /\ ImageName(slugify(data.title), i) \in DOMAIN photos
       /\ photos[ImageName(slugify(data.title), i)] = PayloadBytes(data.photos[i + 1])
       /\ written[i + 1] = [dir |-> PhotosDir, name |-> ImageName(slugify(data.title), i)]
  /\ records = before.records
  /\ RecordName(slugify(data.title)) \notin DOMAIN records
  /\ resp.status >= 400
  /\ resp.body.error # <<>>

\* A save of data now is refused as a conflict that names the first image
\* file of its slug, before any write
RetryRefused(data) ==
  LET r == handleSave(data, records, photos, logos)
  IN /\ r.status = 409
     /\ startsWith(r.body.error, <<"P", "h", "o", "t", "o", " ", "f", "i", "l", "e">>)
     /\ Contains(r.body.error, <<"\"">> \o ImageName(slugify(data.title), 0) \o <<"\"">>)
     /\ r.records = records
     /\ r.photos = photos

\* C15: when the write of the image at position k fails, the images at the
\* positions before k stay on disk, no record is written and the caller
\* gets an error; nothing is cleaned up, so for k >= 1 every later save of
\* the same submission is refused with the conflict that names <slug>.png.
C15_FailedImageWriteBlocksRetry ==
  \A data \in FaultSubmissions :
    \A k \in 0..(MaxPhotos - 1) :
      [](ImageWriteFailed(data, k)
           => (LeftAfterFailure(data, k) /\ (k >= 1 => []RetryRefused(data))))

\* The write of the second image of a save has failed
C15_Witness ==
  /\ ImageWriteFailed(req, 1)
  /\ resp.status = 500
  /\ DOMAIN photos = DOMAIN before.photos \cup {ImageName(ReqSlug, 0)}
  /\ DOMAIN photos # DOMAIN before.photos

\* The submission sent on a connection, read from the body it has sent
Sent(id) == bodyFields(conn[id].body)

SentSlug(id) == slugify(Sent(id).title)

\* Both requests have been answered and their titles derive the same slug
BothAnswered ==
  /\ \A id \in Connections : conn[id].state = "done"
  /\ SentSlug(1) = SentSlug(2)

\* The files on disk are the images and the record of the submission sent on
\* the connection, and no other
OnlyFilesOf(id) ==
  LET data == Sent(id)
      s == SentSlug(id)
  IN /\ DOMAIN photos = {ImageName(s, i) : i \in 0..(Len(data.photos) - 1)}
     /\ \A i \in 0..(Len(data.photos) - 1) :
          photos[ImageName(s, i)] = PayloadBytes(data.photos[i + 1])
     /\ DOMAIN records = {RecordName(s)}
     /\ startsWith(records[RecordName(s)], <<"t", "i", "t", "l", "e", ":", " ", "\"">> \o data.title \o <<"\"", "\n">>)
     /\ Len(RecordPhotos(records[RecordName(s)])) = Len(data.photos)

\* One request succeeded, the other was refused for the existing record, and
\* the files are those of the first
OneWinner ==
  \E w \in Connections :
    \A l \in Connections \ {w} :
      /\ conn[w].res.status = 200
      /\ conn[l].res.status = 409
      /\ Contains(conn[l].res.body.error, <<"\"">> \o SentSlug(l) \o <<"\"">>)
      /\ OnlyFilesOf(w)

\* C16 as stated: of two save requests whose titles derive the same slug and
\* whose chunks arrive in any order, exactly one succeeds, the other gets the
\* 409 conflict, and the files on disk are those of the successful one only.
C16_OneOfTwoSucceeds ==
  BothAnswered => OneWinner

\* C16 as amended: the same, of two requests that both hold all required
\* fields, on a store that was empty.
C16_OneOfTwoCompleteSucceeds ==
  (BothAnswered /\ \A id \in Connections : ~missingFields(Sent(id)))
    => OneWinner

\* Both requests were complete, each received a chunk between two chunks of
\* the other, and the request on connection 2, with fewer photos, succeeded
C16_Witness ==
  /\ BothAnswered
  /\ \A id \in Connections : conn[id].mixed /\ ~missingFields(Sent(id))
  /\ conn[2].res.status = 200
  /\ Len(Sent(2).photos) < Len(Sent(1).photos)

\* The image paths listed in the record files, each with its record
ListedPaths ==
  UNION {{<<r, RecordPhotos(records[r])[i]>> : i \in 1..Len(RecordPhotos(records[r]))} :
           r \in DOMAIN records}

\* The path names a file of the photos directory, which is ../../assets/photos
\* as seen from a record
NamesImageOnDisk(path) ==
  /\ startsWith(path, <<".", ".", "/", ".", ".", "/", "a", "s", "s", "e", "t", "s", "/", "p", "h", "o", "t", "o", "s", "/">>)
  /\ SubSeq(path, Len(<<".", ".", "/", ".", ".", "/", "a", "s", "s", "e", "t", "s", "/", "p", "h", "o", "t", "o", "s", "/">>) + 1, Len(path)) \in DOMAIN photos

\* C17: in every reachable state, also after a write has failed in the middle
\* of a save, every image path listed in a record file names an image file
\* that is on disk: the record is written after all its images.
C17_ListedImagesExist ==
  \A p \in ListedPaths : NamesImageOnDisk(p[2])

\* The write of the record has failed after its image was written, and the
\* part of the record left on disk lists the image; another record exists
C17_Witness ==
  /\ op = "save"
  /\ resp.status = 500
  /\ Len(written) = Len(req.photos)
  /\ RecordName(ReqSlug) \in DOMAIN records
  /\ RecordPhotos(records[RecordName(ReqSlug)]) # <<>>
  /\ Cardinality(DOMAIN records) = 2

\* The save requests of the page that have not been answered
InFlight == {i \in 1..Len(page.calls) : page.calls[i].phase = "save"}

\* C18 as stated: from the click on Save until the response of that request
\* has been handled the Save button is disabled, whatever other events of
\* the page come in between, so that two save requests of the page are
\* never in flight at once.
C18_SaveButtonStaysDisabled ==
  /\ page.calls # <<>> => page.disabled
  /\ Cardinality(InFlight) <= 1
====
